---- MODULE Spec2Model ----
(***************************************************************************)
(* Model of the Gale-Shapley notebook "Workshop Stable Mariages":          *)
(* classes Man, Woman and Stable_Marriages.                                *)
(*                                                                         *)
(* Python lists of agents (men, women) are functions over 0..n-1, so that  *)
(* men[i] is the i-th list element.  Preference lists are sequences of     *)
(* ids; index() and pop(0) are modelled on them.  An object reference      *)
(* (Man.partner, Woman.partner) is the position of the object in its list. *)
(* The module-level names men / women that match() and getSuitress() read  *)
(* are bound to the very lists handed to the constructor, as in the        *)
(* notebook's only call site.                                              *)
(***************************************************************************)
EXTENDS Integers, Sequences, FiniteSets, TLC

VARIABLES men, women, applicants, freeMen, matching_status, decision, pc, error

vars == <<men, women, applicants, freeMen, matching_status, decision, pc, error>>

(* ------------------------------ bounds --------------------------------- *)
\* largest group size for which every profile of strict complete lists is tried
MaxN == 2
\* largest group size tried for groups of different sizes
MaxGroup == 4
\* largest group size for which the profiles of rotated lists are tried
MaxRot == 3

(* --------------------------- Python values ----------------------------- *)
\* None (also: the value a failed lookup yields before the raise is modelled)
None == -1
\* math.inf
Inf == 1000000

Range(s) == {s[i] : i \in 1..Len(s)}

\* list.index(x): 0-based position of the first occurrence; None stands for
\* the ValueError raised when x is absent
index(l, x) ==
    IF \E i \in 1..Len(l) : l[i] = x
    THEN (CHOOSE i \in 1..Len(l) : l[i] = x /\ \A j \in 1..(i-1) : l[j] # x) - 1
    ELSE None

(* ------------------------------- Man ----------------------------------- *)
ManInit(mid, pref_list) ==
    [mid |-> mid, pref_list |-> pref_list, remaining_list |-> pref_list,
     partner |-> None, partner_rank |-> Inf, is_free |-> TRUE,
     proposals_made |-> 0, max_proposals |-> Len(pref_list)]

\* mutant: pop() in place of pop(0)
getSuitressId_popLast(man) ==
    [id  |-> man.remaining_list[Len(man.remaining_list)],
     man |-> [man EXCEPT !.remaining_list = SubSeq(@, 1, Len(@) - 1)]]

\* mutant: the proposal is also counted here, and again by match()
getSuitressId_counts(man) ==
    [id  |-> Head(man.remaining_list),
     man |-> [man EXCEPT !.remaining_list = Tail(@), !.proposals_made = @ + 1]]

\* remaining_list.pop(0); called only on a non-empty list (the empty case is
\* RoundIndexError)
getSuitressId(man) ==
    [id  |-> Head(man.remaining_list),
     man |-> [man EXCEPT !.remaining_list = Tail(@)]]

\* mutant: is_free is left as it was
updatePartner_keepsFree(man, t, W) ==
    [man EXCEPT !.partner = t,
                !.partner_rank = index(man.pref_list, W[t].wid)]

\* suitress is the woman object at position t of W
updatePartner(man, t, W) ==
    [man EXCEPT !.partner = t,
                !.partner_rank = index(man.pref_list, W[t].wid),
                !.is_free = FALSE]

(* ------------------------------ Woman ---------------------------------- *)
WomanInit(wid, pref_list) ==
    [wid |-> wid, pref_list |-> pref_list, partner |-> None,
     partner_rank |-> None, is_free |-> TRUE, proposals_received |-> 0]

\* mutant: the comparison is the wrong way round
decide_less(M, W, t, s) ==
    LET w0 == [W[t] EXCEPT !.proposals_received = @ + 1]
        suitor_rank == index(w0.pref_list, M[s].mid)
        first_proposal == w0.is_free
        break_up == (~w0.is_free) /\ w0.partner_rank < suitor_rank
        M1 == IF break_up
              THEN [M EXCEPT ![w0.partner] =
                       [@ EXCEPT !.is_free = TRUE, !.partner = None,
                                 !.partner_rank = Inf]]
              ELSE M
        w1 == [w0 EXCEPT !.partner = s, !.partner_rank = suitor_rank,
                         !.is_free = FALSE]
    IN  IF suitor_rank = None
        THEN [raised |-> TRUE, accepted |-> FALSE, broke_up |-> FALSE,
              men |-> M, women |-> [W EXCEPT ![t] = w0]]
        ELSE IF first_proposal \/ break_up
        THEN [raised |-> FALSE, accepted |-> TRUE, broke_up |-> break_up,
              men |-> M1, women |-> [W EXCEPT ![t] = w1]]
        ELSE [raised |-> FALSE, accepted |-> FALSE, broke_up |-> FALSE,
              men |-> M, women |-> [W EXCEPT ![t] = w0]]

\* mutant: the old partner is not released on a break-up
decide_keepsOld(M, W, t, s) ==
    LET w0 == [W[t] EXCEPT !.proposals_received = @ + 1]
        suitor_rank == index(w0.pref_list, M[s].mid)
        first_proposal == w0.is_free
        break_up == (~w0.is_free) /\ w0.partner_rank > suitor_rank
        M1 == M
        w1 == [w0 EXCEPT !.partner = s, !.partner_rank = suitor_rank,
                         !.is_free = FALSE]
    IN  IF suitor_rank = None
        THEN [raised |-> TRUE, accepted |-> FALSE, broke_up |-> FALSE,
              men |-> M, women |-> [W EXCEPT ![t] = w0]]
        ELSE IF first_proposal \/ break_up
        THEN [raised |-> FALSE, accepted |-> TRUE, broke_up |-> break_up,
              men |-> M1, women |-> [W EXCEPT ![t] = w1]]
        ELSE [raised |-> FALSE, accepted |-> FALSE, broke_up |-> FALSE,
              men |-> M, women |-> [W EXCEPT ![t] = w0]]

\* mutant: self.partner = man has slipped out of the if and is always done
decide_dedent(M, W, t, s) ==
    LET w0 == [W[t] EXCEPT !.proposals_received = @ + 1]
        suitor_rank == index(w0.pref_list, M[s].mid)
        first_proposal == w0.is_free
        break_up == (~w0.is_free) /\ w0.partner_rank > suitor_rank
        M1 == IF break_up
              THEN [M EXCEPT ![w0.partner] =
                       [@ EXCEPT !.is_free = TRUE, !.partner = None,
                                 !.partner_rank = Inf]]
              ELSE M
        w1 == [w0 EXCEPT !.partner = s, !.partner_rank = suitor_rank,
                         !.is_free = FALSE]
    IN  IF suitor_rank = None
        THEN [raised |-> TRUE, accepted |-> FALSE, broke_up |-> FALSE,
              men |-> M, women |-> [W EXCEPT ![t] = w0]]
        ELSE IF first_proposal \/ break_up
        THEN [raised |-> FALSE, accepted |-> TRUE, broke_up |-> break_up,
              men |-> M1, women |-> [W EXCEPT ![t] = w1]]
        ELSE [raised |-> FALSE, accepted |-> FALSE, broke_up |-> FALSE,
              men |-> M, women |-> [W EXCEPT ![t] = [w0 EXCEPT !.partner = s]]]

\* Woman.decide(man) for the woman at position t of W and the man at
\* position s of M.  raised is the ValueError of pref_list.index (the
\* counter is already incremented); men / women are the lists afterwards
decide(M, W, t, s) ==
    LET w0 == [W[t] EXCEPT !.proposals_received = @ + 1]
        suitor_rank == index(w0.pref_list, M[s].mid)
        first_proposal == w0.is_free
        break_up == (~w0.is_free) /\ w0.partner_rank > suitor_rank
        M1 == IF break_up
              THEN [M EXCEPT ![w0.partner] =
                       [@ EXCEPT !.is_free = TRUE, !.partner = None,
                                 !.partner_rank = Inf]]
              ELSE M
        w1 == [w0 EXCEPT !.partner = s, !.partner_rank = suitor_rank,
                         !.is_free = FALSE]
    IN  IF suitor_rank = None
        THEN [raised |-> TRUE, accepted |-> FALSE, broke_up |-> FALSE,
              men |-> M, women |-> [W EXCEPT ![t] = w0]]
        ELSE IF first_proposal \/ break_up
        THEN [raised |-> FALSE, accepted |-> TRUE, broke_up |-> break_up,
              men |-> M1, women |-> [W EXCEPT ![t] = w1]]
        ELSE [raised |-> FALSE, accepted |-> FALSE, broke_up |-> FALSE,
              men |-> M, women |-> [W EXCEPT ![t] = w0]]

(* ------------------------- Stable_Marriages ---------------------------- *)
\* mutant: a shorter list of men is let through
EqualNumber_atMost(M, W) == Cardinality(DOMAIN M) <= Cardinality(DOMAIN W)

\* len(men) == len(women), the test of __init__
EqualNumber(M, W) == Cardinality(DOMAIN M) = Cardinality(DOMAIN W)

\* the dict comprehension of __init__, keyed by man.mid
InitialStatus(M) ==
    [k \in {M[i].mid : i \in DOMAIN M} |->
        [partner_id |-> None, free |-> TRUE, proposals |-> 0]]

pairings(status) == [k \in DOMAIN status |-> status[k].partner_id]

\* the position of the first woman among the first n whose wid is the one
\* asked for; None when the loop falls through
getSuitress(W, n, wid) ==
    IF \E i \in 0..(n-1) : W[i].wid = wid
    THEN CHOOSE i \in 0..(n-1) : W[i].wid = wid /\ \A j \in 0..(i-1) : W[j].wid # wid
    ELSE None

\* "Find a Free man": the first free man in list order, None if there is none
FindFreeMan(M) ==
    IF \E i \in DOMAIN M : M[i].is_free
    THEN CHOOSE i \in DOMAIN M : M[i].is_free /\ \A j \in DOMAIN M : M[j].is_free => i <= j
    ELSE None

\* mutant: the entry is written with no partner
StatusEntry_noPartner(man, W) ==
    [partner_id |-> None, free |-> man.is_free, proposals |-> man.proposals_made]

\* the dict stored in matching_status[suitor.mid] at the end of a round
StatusEntry(man, W) ==
    [partner_id |-> IF man.partner # None THEN W[man.partner].wid ELSE None,
     free |-> man.is_free, proposals |-> man.proposals_made]

NoDecision == [accepted |-> FALSE, broke_up |-> FALSE, suitor |-> None, suitress |-> None]

(* ------------------------------ actions -------------------------------- *)
\* Stable_Marriages(men, women) on lists of equal length
Construct ==
    /\ pc = "new"
    /\ EqualNumber(men, women)
    /\ applicants' = Cardinality(DOMAIN men)
    /\ freeMen' = Cardinality(DOMAIN men)
    /\ matching_status' = InitialStatus(men)
    /\ pc' = "running"
    /\ UNCHANGED <<men, women, decision, error>>

\* Stable_Marriages(men, women) raising 'Not equal Number of men and women'
ConstructRaises ==
    /\ pc = "new"
    /\ ~EqualNumber(men, women)
    /\ pc' = "raised"
    /\ error' = "Exception"
    /\ UNCHANGED <<men, women, applicants, freeMen, matching_status, decision>>

\* mutant: one proposal too many is allowed
MayPropose_atMost(man, n) == man.proposals_made <= n

\* suitor.proposals_made < self.applicants
MayPropose(man, n) == man.proposals_made < n

\* the loop of match() is entered with the man at position s selected (None:
\* no free man found) and he may still propose
CanProposeAs(s) ==
    /\ pc = "running"
    /\ freeMen > 0
    /\ s # None
    /\ MayPropose(men[s], applicants)

\* the loop of match() is entered and a free man who may still propose is found
CanPropose == CanProposeAs(FindFreeMan(men))

\* suitor.getSuitressId(), self.getSuitress(..) and suitor.proposals_made += 1
\* for the man at position s: the woman found (None if the lookup falls
\* through) and the list of men afterwards
Propose(M, W, n, s) ==
    LET g == getSuitressId(M[s])
    IN  [suitress |-> getSuitress(W, n, g.id),
         men |-> [M EXCEPT ![s] = [g.man EXCEPT !.proposals_made = @ + 1]]]

\* one iteration of match() with the man at position s as suitor that runs
\* to the end of the loop body
RoundAs(s) ==
    /\ CanProposeAs(s)
    /\ men[s].remaining_list # <<>>
    /\ \E p \in {Propose(men, women, applicants, s)} :
       /\ p.suitress # None
       /\ \E d \in {decide(p.men, women, p.suitress, s)} :
          /\ ~d.raised
          /\ \E M3 \in {IF d.accepted
                        THEN [d.men EXCEPT ![s] = updatePartner(@, p.suitress, d.women)]
                        ELSE d.men} :
             /\ men' = M3
             /\ women' = d.women
             /\ freeMen' = (IF d.accepted THEN freeMen - 1 ELSE freeMen)
                           + (IF d.broke_up THEN 1 ELSE 0)
             /\ matching_status' =
                   [matching_status EXCEPT ![M3[s].mid] = StatusEntry(M3[s], d.women)]
             /\ decision' = [accepted |-> d.accepted, broke_up |-> d.broke_up,
                             suitor |-> s, suitress |-> p.suitress]
    /\ UNCHANGED <<applicants, pc, error>>

\* an iteration ended by remaining_list.pop(0) on an empty list
RoundIndexErrorAs(s) ==
    /\ CanProposeAs(s)
    /\ men[s].remaining_list = <<>>
    /\ pc' = "raised"
    /\ error' = "IndexError"
    /\ UNCHANGED <<men, women, applicants, freeMen, matching_status, decision>>

\* an iteration ended by suitress.decide on the None that getSuitress
\* returned; the pop and the count have been done
RoundAttributeErrorAs(s) ==
    /\ CanProposeAs(s)
    /\ men[s].remaining_list # <<>>
    /\ \E p \in {Propose(men, women, applicants, s)} :
       /\ p.suitress = None
       /\ men' = p.men
    /\ pc' = "raised"
    /\ error' = "AttributeError"
    /\ UNCHANGED <<women, applicants, freeMen, matching_status, decision>>

\* an iteration ended by pref_list.index(man.mid) inside decide; the pop and
\* both counts have been done
RoundValueErrorAs(s) ==
    /\ CanProposeAs(s)
    /\ men[s].remaining_list # <<>>
    /\ \E p \in {Propose(men, women, applicants, s)} :
       /\ p.suitress # None
       /\ \E d \in {decide(p.men, women, p.suitress, s)} :
          /\ d.raised
          /\ men' = d.men
          /\ women' = d.women
    /\ pc' = "raised"
    /\ error' = "ValueError"
    /\ UNCHANGED <<applicants, freeMen, matching_status, decision>>

\* the selected free man has made applicants proposals:
\* return 'ran out of women to propose to'
StallAs(s) ==
    /\ pc = "running"
    /\ freeMen > 0
    /\ s # None
    /\ ~MayPropose(men[s], applicants)
    /\ pc' = "stalled"
    /\ UNCHANGED <<men, women, applicants, freeMen, matching_status, decision, error>>

\* the iterations of match() as written: the suitor is the first free man
Round == \E s \in {FindFreeMan(men)} : RoundAs(s)
RoundIndexError == \E s \in {FindFreeMan(men)} : RoundIndexErrorAs(s)
RoundAttributeError == \E s \in {FindFreeMan(men)} : RoundAttributeErrorAs(s)
RoundValueError == \E s \in {FindFreeMan(men)} : RoundValueErrorAs(s)
Stall == \E s \in {FindFreeMan(men)} : StallAs(s)

\* the while condition fails, or no free man is found and the loop is left
Halt ==
    /\ pc = "running"
    /\ ~(freeMen > 0 /\ FindFreeMan(men) # None)
    /\ pc' = "returned"
    /\ UNCHANGED <<men, women, applicants, freeMen, matching_status, decision, error>>

(* ------------------------------- inputs -------------------------------- *)
\* the strict complete preference lists over n ids
Perms(n) == {l \in [1..n -> 0..(n-1)] : \A i, j \in 1..n : i # j => l[i] # l[j]}

\* the list 0, 1, .., n-1 and its rotations
Ident(n) == [i \in 1..n |-> i - 1]
Rotations(n) == {[i \in 1..n |-> (i - 1 + k) % n] : k \in 0..(n-1)}

\* lists of at most n+1 entries over the ids 0..n (n itself is nobody's id)
\* that are not strict complete lists over n ids
BadLists(n) == (UNION {[1..k -> 0..n] : k \in 0..(n+1)}) \ Perms(n)

\* every profile of n men and n women with lists from Lists in which man 0
\* holds the list 0, 1, .., n-1 (any other profile is one of these with the
\* women renumbered)
Profiles(n, Lists) ==
    {[mp |-> a, wp |-> b] :
        a \in {x \in [0..(n-1) -> Lists] : x[0] = Ident(n)},
        b \in [0..(n-1) -> Lists]}

\* the profiles of rotated lists in which man 0 and woman 0 hold the list
\* 0, 1, .., n-1
RotProfiles(n) == {q \in Profiles(n, Rotations(n)) : q.wp[0] = Ident(n)}

\* one agent holds a bad list, everybody else the list 0, 1, .., n-1
OneBad(n) ==
    LET good == [i \in 0..(n-1) |-> Ident(n)]
    IN  {[mp |-> [good EXCEPT ![i] = l], wp |-> good] : i \in 0..(n-1), l \in BadLists(n)}
        \cup
        {[mp |-> good, wp |-> [good EXCEPT ![i] = l]] : i \in 0..(n-1), l \in BadLists(n)}

\* a men and b women, a # b, each list naming the whole other group
Unequal ==
    {[mp |-> [i \in 0..(a-1) |-> Ident(b)], wp |-> [j \in 0..(b-1) |-> Ident(a)]] :
        <<a, b>> \in {q \in (0..MaxGroup) \X (0..MaxGroup) : q[1] # q[2]}}

\* the scenario of the specification and of the notebook's task statement
Reference ==
    [mp |-> (0 :> <<0,1,2,3>> @@ 1 :> <<2,3,0,1>> @@ 2 :> <<1,0,3,2>> @@ 3 :> <<3,2,1,0>>),
     wp |-> (0 :> <<0,1,2,3>> @@ 1 :> <<2,3,0,1>> @@ 2 :> <<1,0,3,2>> @@ 3 :> <<3,2,1,0>>)]

\* the run at the end of the notebook
Demo ==
    [mp |-> (0 :> <<0,1,2,3>> @@ 1 :> <<0,3,2,1>> @@ 2 :> <<1,0,3,2>> @@ 3 :> <<3,2,1,0>>),
     wp |-> (0 :> <<0,1,2,3>> @@ 1 :> <<2,3,0,1>> @@ 2 :> <<1,0,3,2>> @@ 3 :> <<3,2,1,0>>)]

Instances ==
    (UNION {Profiles(n, Perms(n)) : n \in 1..MaxN})
    \cup (UNION {RotProfiles(n) : n \in 1..MaxRot})
    \cup (UNION {OneBad(n) : n \in 1..MaxN})
    \cup Unequal
    \cup {Reference, Demo}

\* the agents have been built by Man(i, ..) and Woman(j, ..) and put in the
\* lists men and women; no Stable_Marriages object exists yet
Init ==
    /\ \E inst \in Instances :
          /\ men = [i \in DOMAIN inst.mp |-> ManInit(i, inst.mp[i])]
          /\ women = [j \in DOMAIN inst.wp |-> WomanInit(j, inst.wp[j])]
    /\ applicants = None
    /\ freeMen = None
    /\ matching_status = <<>>
    /\ decision = NoDecision
    /\ pc = "new"
    /\ error = "none"

Next ==
    \/ Construct
    \/ ConstructRaises
    \/ Round
    \/ RoundIndexError
    \/ RoundAttributeError
    \/ RoundValueError
    \/ Stall
    \/ Halt

Spec == Init /\ [][Next]_vars

\* match() is a sequential loop: a step that can be taken is taken
FairSpec == Spec /\ WF_vars(Next)

(* ---------------- match() with any free man as suitor ----------------- *)
\* the free-man scan generalised: any free man may be the one selected
FreeMen(M) == {i \in DOMAIN M : M[i].is_free}

RoundAny == \E s \in FreeMen(men) : RoundAs(s)
RoundIndexErrorAny == \E s \in FreeMen(men) : RoundIndexErrorAs(s)
RoundAttributeErrorAny == \E s \in FreeMen(men) : RoundAttributeErrorAs(s)
RoundValueErrorAny == \E s \in FreeMen(men) : RoundValueErrorAs(s)
StallAny == \E s \in FreeMen(men) : StallAs(s)

NextAnyOrder ==
    \/ Construct
    \/ ConstructRaises
    \/ RoundAny
    \/ RoundIndexErrorAny
    \/ RoundAttributeErrorAny
    \/ RoundValueErrorAny
    \/ StallAny
    \/ Halt

SpecAnyOrder == Init /\ [][NextAnyOrder]_vars

\* the state a completed round with suitor s leaves, as a value
AfterRound(M, W, n, free, status, s) ==
    LET p  == Propose(M, W, n, s)
        d  == decide(p.men, W, p.suitress, s)
        M3 == IF d.accepted
              THEN [d.men EXCEPT ![s] = updatePartner(@, p.suitress, d.women)]
              ELSE d.men
    IN  [men |-> M3, women |-> d.women,
         freeMen |-> (IF d.accepted THEN free - 1 ELSE free)
                     + (IF d.broke_up THEN 1 ELSE 0),
         matching_status |-> [status EXCEPT ![M3[s].mid] = StatusEntry(M3[s], d.women)]]

\* the mappings pairings() can return when match() is run to its end from
\* the given state on valid lists, over every choice of the free man
RECURSIVE Finals(_, _, _, _, _)
Finals(M, W, n, free, status) ==
    IF ~(free > 0 /\ FreeMen(M) # {})
    THEN {pairings(status)}
    ELSE UNION {LET r == AfterRound(M, W, n, free, status, s)
                IN  Finals(r.men, r.women, n, r.freeMen, r.matching_status) :
                    s \in FreeMen(M)}

\* the final mappings of the runs on a profile, from construction on
FinalsOf(inst) ==
    LET M == [i \in DOMAIN inst.mp |-> ManInit(i, inst.mp[i])]
        W == [j \in DOMAIN inst.wp |-> WomanInit(j, inst.wp[j])]
        n == Cardinality(DOMAIN M)
    IN  Finals(M, W, n, n, InitialStatus(M))

\* the profiles among the inputs that are valid
ValidInstances ==
    (UNION {Profiles(n, Perms(n)) : n \in 1..MaxN})
    \cup (UNION {RotProfiles(n) : n \in 1..MaxRot})
    \cup {Reference, Demo}

(* --------------------------- vocabulary -------------------------------- *)
N == Cardinality(DOMAIN men)
ManIds == {men[i].mid : i \in DOMAIN men}
WomanIds == {women[j].wid : j \in DOMAIN women}

StrictComplete(l, ids) == Len(l) = Cardinality(ids) /\ Range(l) = ids

\* equal sizes n >= 1, every list a permutation of the other group's ids
ValidInput ==
    /\ N >= 1
    /\ Cardinality(DOMAIN women) = N
    /\ \A i \in DOMAIN men : StrictComplete(men[i].pref_list, WomanIds)
    /\ \A j \in DOMAIN women : StrictComplete(women[j].pref_list, ManIds)

\* equal sizes, and some list is not a permutation of the other group's ids
MalformedInput ==
    /\ Cardinality(DOMAIN women) = N
    /\ \/ \E i \in DOMAIN men : ~StrictComplete(men[i].pref_list, WomanIds)
       \/ \E j \in DOMAIN women : ~StrictComplete(women[j].pref_list, ManIds)

ManOf(m) == CHOOSE i \in DOMAIN men : men[i].mid = m
WomanOf(w) == CHOOSE j \in DOMAIN women : women[j].wid = w

\* the rank man m gives woman w, woman w gives man m; no partner ranks last
RankM(m, w) == IF w = None THEN Inf ELSE index(men[ManOf(m)].pref_list, w)
RankW(w, m) == IF m = None THEN Inf ELSE index(women[WomanOf(w)].pref_list, m)

RECURSIVE Sum(_, _)
Sum(f, S) == IF S = {} THEN 0 ELSE LET x == CHOOSE y \in S : TRUE IN f[x] + Sum(f, S \ {x})

TotalMade == Sum([i \in DOMAIN men |-> men[i].proposals_made], DOMAIN men)
TotalReceived == Sum([j \in DOMAIN women |-> women[j].proposals_received], DOMAIN women)

\* m and w are not matched by P and each prefers the other to what P gives
Blocking(P, m, w) ==
    /\ P[m] # w
    /\ RankM(m, w) < RankM(m, P[m])
    /\ \A m2 \in DOMAIN P : P[m2] = w => RankW(w, m) < RankW(w, m2)

Stable(P) == ~\E m \in ManIds, w \in WomanIds : Blocking(P, m, w)

Bijection(P) ==
    /\ DOMAIN P = ManIds
    /\ \A m \in ManIds : P[m] \in WomanIds
    /\ \A w \in WomanIds : Cardinality({m \in ManIds : P[m] = w}) = 1

StableMatchings == {P \in [ManIds -> WomanIds] : Bijection(P) /\ Stable(P)}

Result == pairings(matching_status)

(* ------------------------------ claims --------------------------------- *)
\* C1 -- Stability: on a valid input, when match() has halted with no free
\* man, the returned mapping has no blocking pair.
C1_Stability ==
    (ValidInput /\ pc = "returned" /\ freeMen = 0) => Stable(Result)

\* a run on a valid input that needed a break-up has halted
C1_Witness ==
    /\ ValidInput /\ pc = "returned" /\ freeMen = 0
    /\ N >= 2
    /\ \E i \in DOMAIN men : men[i].proposals_made >= 2

\* C2 -- Completeness: on a valid input the mapping pairings() returns after
\* match() has halted is a bijection from the man ids onto the woman ids.
C2_Completeness ==
    (ValidInput /\ pc \in {"returned", "stalled"}) => Bijection(Result)

\* a halted run on a valid input of at least two pairs in which some woman
\* received more than one proposal
C2_Witness ==
    /\ ValidInput /\ pc = "returned"
    /\ N >= 2
    /\ \E j \in DOMAIN women : women[j].proposals_received >= 2

AllEngaged == \A i \in DOMAIN men : ~men[i].is_free /\ men[i].partner # None

\* C3 -- Termination in Stable: on a valid input match() eventually halts
\* with freeMen = 0 and every man engaged, and neither the Stalled return
\* nor an exception is ever reached.
C3_Termination ==
    /\ [](ValidInput => pc \notin {"stalled", "raised"})
    /\ ValidInput ~> (pc = "returned" /\ freeMen = 0 /\ AllEngaged)

\* a valid run has halted in which some man went through his whole list
C3_Witness ==
    /\ ValidInput /\ pc = "returned" /\ freeMen = 0 /\ AllEngaged
    /\ N >= 2
    /\ \E i \in DOMAIN men : men[i].proposals_made = applicants

\* C4 -- Proposer-optimality: on a valid input the returned mapping is a
\* stable matching, and no stable matching of the instance gives any man a
\* woman he ranks above the one returned.
C4_ProposerOptimal ==
    (ValidInput /\ pc = "returned") =>
        /\ Result \in StableMatchings
        /\ \A P \in StableMatchings : \A m \in ManIds : RankM(m, Result[m]) <= RankM(m, P[m])

\* a halted valid run on an instance that has more than one stable matching
C4_Witness ==
    /\ ValidInput /\ pc = "returned"
    /\ Cardinality(StableMatchings) >= 2

\* C5 -- Termination bound: on a valid input of n agents a side the number
\* of calls of Woman.decide, and the sum of proposals_made, never exceed n*n.
C5_RoundBound ==
    ValidInput => (TotalReceived <= N * N /\ TotalMade <= N * N)

\* a valid run of at least two pairs that took the worst case n*n - n + 1
C5_Witness ==
    /\ ValidInput /\ pc = "returned"
    /\ N >= 2
    /\ TotalReceived = N * N - N + 1
    /\ TotalMade = TotalReceived

\* C6 -- UnequalGroupSizes: with lists of different lengths the constructor
\* raises, no round runs, and every agent stays as constructed.
C6_UnequalGroupSizes ==
    (Cardinality(DOMAIN men) # Cardinality(DOMAIN women)) =>
        /\ pc \in {"new", "raised"}
        /\ pc = "raised" => error = "Exception"
        /\ \A i \in DOMAIN men : men[i] = ManInit(men[i].mid, men[i].pref_list)
        /\ \A j \in DOMAIN women : women[j] = WomanInit(women[j].wid, women[j].pref_list)
        /\ decision = NoDecision

\* the constructor has raised on three men and four women
C6_Witness ==
    /\ Cardinality(DOMAIN men) = 3 /\ Cardinality(DOMAIN women) = 4
    /\ pc = "raised" /\ error = "Exception"

\* C7 -- MalformedPreferenceList: on a malformed list the engine fails at
\* construction and no proposal round is executed.
C7_MalformedRejected ==
    MalformedInput =>
        /\ pc \in {"new", "raised"}
        /\ TotalMade = 0 /\ TotalReceived = 0

IsReference ==
    /\ DOMAIN men = DOMAIN Reference.mp /\ DOMAIN women = DOMAIN Reference.wp
    /\ \A i \in DOMAIN men : men[i].mid = i /\ men[i].pref_list = Reference.mp[i]
    /\ \A j \in DOMAIN women : women[j].wid = j /\ women[j].pref_list = Reference.wp[j]

\* C8 -- Reference scenario: on the four-pair scenario match() ends in
\* Stable and pairings() is exactly {0:0, 1:2, 2:1, 3:3}.
C8_ReferenceScenario ==
    (IsReference /\ pc \notin {"new", "running"}) =>
        /\ pc = "returned" /\ freeMen = 0
        /\ Result = (0 :> 0 @@ 1 :> 2 @@ 2 :> 1 @@ 3 :> 3)

\* the run on the reference scenario has halted
C8_Witness == IsReference /\ pc = "returned" /\ TotalReceived = 4

\* C9 -- Result map tracks break-ups: after every round the result map
\* gives each man the woman he is engaged to, and no partner for a man who
\* is unengaged.
C9_ResultTracksEngagements ==
    (ValidInput /\ pc \in {"running", "returned", "stalled"}) =>
        \A i \in DOMAIN men :
            /\ matching_status[men[i].mid].partner_id =
                   (IF men[i].partner # None THEN women[men[i].partner].wid ELSE None)
            /\ men[i].is_free => matching_status[men[i].mid].partner_id = None

\* C10 -- Acceptance rule: a proposal is accepted iff the woman is free or
\* ranks the proposer strictly above her partner; a break-up is reported iff
\* she was engaged and accepted; on acceptance she holds the proposer and
\* his index.
C10_AcceptanceRule ==
    [][Round =>
        LET s == decision'.suitor
            t == decision'.suitress
            w == women[t]
            r == index(w.pref_list, men[s].mid)
            better == w.is_free \/ r < index(w.pref_list, men[w.partner].mid)
        IN  /\ men[s].is_free
            /\ decision'.accepted <=> better
            /\ decision'.broke_up <=> (~w.is_free /\ decision'.accepted)
            /\ decision'.accepted =>
                  /\ women'[t].partner = s
                  /\ women'[t].partner_rank = r
                  /\ ~women'[t].is_free
            /\ ~decision'.accepted =>
                  /\ women'[t].partner = w.partner
                  /\ women'[t].partner_rank = w.partner_rank]_vars

\* a woman who was engaged has just accepted a proposer she ranks higher
C10_Witness == pc = "running" /\ decision.accepted /\ decision.broke_up

Engagement(a) == <<a.partner, a.partner_rank, a.is_free>>

\* C11 -- Rejection frame: a round whose proposal is rejected leaves the
\* woman's engagement, every man's engagement and the free count as they
\* were; the proposing man only has his cursor advanced by one.
C11_RejectionFrame ==
    [][(Round /\ ~decision'.accepted) =>
        LET s == decision'.suitor
            t == decision'.suitress
        IN  /\ Engagement(women'[t]) = Engagement(women[t])
            /\ \A j \in DOMAIN women : j # t => women'[j] = women[j]
            /\ \A i \in DOMAIN men : Engagement(men'[i]) = Engagement(men[i])
            /\ \A i \in DOMAIN men : i # s => men'[i] = men[i]
            /\ freeMen' = freeMen
            /\ men'[s] = [men[s] EXCEPT !.proposals_made = @ + 1,
                                        !.remaining_list = Tail(@)]
            /\ ~decision'.broke_up]_vars

\* a proposal has just been rejected by an engaged woman
C11_Witness ==
    /\ pc = "running"
    /\ decision.suitor # None /\ ~decision.accepted
    /\ men[decision.suitor].is_free
    /\ ~women[decision.suitress].is_free
    /\ women[decision.suitress].partner # decision.suitor

FreeCount == Cardinality({i \in DOMAIN men : men[i].is_free})

\* C12 -- Free-count invariant: after construction and after every completed
\* round freeMen is the number of men whose is_free is True, so freeMen > 0
\* fails exactly when no man is unengaged.
C12_FreeCount ==
    pc \in {"running", "returned", "stalled"} =>
        /\ freeMen = FreeCount
        /\ ~(freeMen > 0) <=> (\A i \in DOMAIN men : ~men[i].is_free)

\* after a break-up the count stands at one free man among several
C12_Witness ==
    /\ pc = "running" /\ decision.broke_up
    /\ freeMen = 1 /\ FreeCount = 1 /\ N >= 2

\* C13 -- Stalled handling: when the man selected is unengaged and has made
\* n proposals, the round ends the run in Stalled, with no proposal issued
\* and no agent, free count or result entry changed.
C13_StalledHandling ==
    [][(/\ pc = "running" /\ freeMen > 0
        /\ \E i \in DOMAIN men :
              /\ men[i].is_free
              /\ \A k \in DOMAIN men : men[k].is_free => i <= k
              /\ men[i].proposals_made >= applicants)
       => (/\ pc' = "stalled"
           /\ UNCHANGED <<men, women, applicants, freeMen, matching_status,
                          decision, error>>)]_vars

\* the run has ended in Stalled on a free man who made n proposals
C13_Witness ==
    /\ pc = "stalled"
    /\ \E i \in DOMAIN men : men[i].is_free /\ men[i].proposals_made = applicants
    /\ TotalReceived = TotalMade

\* the stable matching in which every man has his best stable partner
ManOptimal ==
    CHOOSE P \in StableMatchings :
        \A Q \in StableMatchings : \A m \in ManIds : RankM(m, P[m]) <= RankM(m, Q[m])

\* C14 as amended -- Order independence: with any free man selected in each
\* round, every run on a valid input halts with the same mapping, the stable
\* matching that is best for every man; the order does not change it.
C14_OrderIndependent ==
    (ValidInput /\ pc = "returned") =>
        /\ freeMen = 0
        /\ Stable(Result)
        /\ Result = ManOptimal
        /\ Result \in FinalsOf([mp |-> [i \in DOMAIN men |-> men[i].pref_list],
                                wp |-> [j \in DOMAIN women |-> women[j].pref_list]])

\* a run has halted in which man 0 proposed last and nobody was rejected (the
\* first-found order lets man 0 propose first), on an input with several
\* stable matchings
C14_Witness ==
    /\ ValidInput /\ pc = "returned"
    /\ N >= 2
    /\ decision.suitor = 0
    /\ TotalMade = N
    /\ Cardinality(StableMatchings) >= 2

\* C14 -- Order dependence: before any run, there is a valid input among
\* those it may be given for which two selection orders halt with different
\* final mappings.
C14_OrderDependence ==
    pc = "new" => \E inst \in ValidInstances : Cardinality(FinalsOf(inst)) >= 2

\* the value AfterRound computes is the state the round action leaves
AfterRoundAgrees ==
    [][RoundAny =>
        LET r == AfterRound(men, women, applicants, freeMen, matching_status,
                            decision'.suitor)
        IN  /\ men' = r.men
            /\ women' = r.women
            /\ freeMen' = r.freeMen
            /\ matching_status' = r.matching_status]_vars

Completed == pc \in {"running", "returned", "stalled"}

\* the man at position i has proposed to the woman at position j: her id is
\* among the entries his cursor has passed
HasProposed(i, j) ==
    \E k \in 1..men[i].proposals_made :
        k <= Len(men[i].pref_list) /\ men[i].pref_list[k] = women[j].wid

\* C15 -- Reviewer monotonic improvement: a woman who has accepted is never
\* unengaged again, her partner_rank never increases and every change of
\* partner strictly decreases it; so after every round she is engaged to a
\* man she ranks at least as high as any man she rejected or broke up with.
C15_ReviewerImproves ==
    /\ [][\A j \in DOMAIN women :
            ~women[j].is_free =>
                /\ ~women'[j].is_free
                /\ women'[j].partner_rank <= women[j].partner_rank
                /\ women'[j].partner # women[j].partner =>
                       women'[j].partner_rank < women[j].partner_rank]_vars
    /\ [](Completed =>
            \A i \in DOMAIN men, j \in DOMAIN women :
                (HasProposed(i, j) /\ women[j].partner # i) =>
                    /\ ~women[j].is_free
                    /\ index(women[j].pref_list, men[women[j].partner].mid)
                          <= index(women[j].pref_list, men[i].mid))

\* a woman who has received three proposals is engaged and has turned away
\* two men
C15_Witness ==
    /\ pc = "running"
    /\ \E j \in DOMAIN women :
          /\ ~women[j].is_free
          /\ women[j].proposals_received >= 3
          /\ Cardinality({i \in DOMAIN men :
                             HasProposed(i, j) /\ women[j].partner # i}) >= 2

\* C16 -- Proposer cursor: a round advances the proposing man's cursor by
\* exactly one, accepted or not, and no other man's; the cursor never
\* decreases; proposals_made + len(remaining_list) = len(pref_list) after
\* every round; the woman asked is pref_list[proposals_made] as it was, so
\* on valid lists no man proposes to the same woman twice.
C16_ProposerCursor ==
    /\ [][Round =>
            LET s == decision'.suitor
                t == decision'.suitress
            IN  /\ men'[s].proposals_made = men[s].proposals_made + 1
                /\ men'[s].remaining_list = Tail(men[s].remaining_list)
                /\ \A i \in DOMAIN men : i # s =>
                      /\ men'[i].proposals_made = men[i].proposals_made
                      /\ men'[i].remaining_list = men[i].remaining_list
                /\ women[t].wid = men[s].pref_list[men[s].proposals_made + 1]
                /\ ValidInput => ~HasProposed(s, t)]_vars
    /\ [][\A i \in DOMAIN men : men'[i].proposals_made >= men[i].proposals_made]_vars
    /\ [](Completed =>
            \A i \in DOMAIN men :
                men[i].proposals_made + Len(men[i].remaining_list) = Len(men[i].pref_list))

\* a man on his second proposal or later has just been accepted
C16_Witness ==
    /\ pc = "running" /\ decision.accepted
    /\ men[decision.suitor].proposals_made >= 2
    /\ Len(men[decision.suitor].remaining_list) >= 1

\* C17 -- Reviewer rank invariant: after every round an engaged woman's
\* partner_rank is the index of her partner's id in her own list.
C17_ReviewerRank ==
    Completed =>
        \A j \in DOMAIN women :
            ~women[j].is_free =>
                /\ women[j].partner \in DOMAIN men
                /\ women[j].partner_rank =
                       index(women[j].pref_list, men[women[j].partner].mid)

\* an engaged woman holds a man who is not at the head of her list, after
\* having rejected a proposal
C17_Witness ==
    /\ pc = "running" /\ decision.suitor # None /\ ~decision.accepted
    /\ women[decision.suitress].partner_rank >= 1

\* C18 -- Engagements are mutual and one-to-one: after every completed round
\* man m has partner w iff woman w has partner m, a man is free exactly when
\* he has no partner (and then his partner_rank is infinite), no two men hold
\* the same woman and as many men as women are engaged.
C18_MutualEngagements ==
    Completed =>
        /\ \A i \in DOMAIN men, j \in DOMAIN women :
              men[i].partner = j <=> women[j].partner = i
        /\ \A i \in DOMAIN men :
              /\ men[i].is_free <=> men[i].partner = None
              /\ men[i].is_free => men[i].partner_rank = Inf
        /\ \A i, k \in DOMAIN men :
              (i # k /\ men[i].partner # None) => men[i].partner # men[k].partner
        /\ Cardinality({i \in DOMAIN men : ~men[i].is_free})
              = Cardinality({j \in DOMAIN women : ~women[j].is_free})

\* a displaced man is free again while another couple stays engaged
C18_Witness ==
    /\ pc = "running" /\ N >= 3
    /\ \E i \in DOMAIN men : men[i].is_free /\ men[i].proposals_made >= 1
    /\ Cardinality({j \in DOMAIN women : ~women[j].is_free}) >= 2

\* C19 -- Descending-preference invariant: on valid input, after every
\* round an engaged man's partner is the woman he proposed to last
\* (pref_list[proposals_made - 1], his partner_rank is proposals_made - 1),
\* and every woman he proposed to and is not engaged to is engaged to a man
\* she ranks strictly above him.
C19_DescendingPreference ==
    (ValidInput /\ Completed) =>
        \A i \in DOMAIN men :
            /\ ~men[i].is_free =>
                  /\ men[i].proposals_made >= 1
                  /\ women[men[i].partner].wid = men[i].pref_list[men[i].proposals_made]
                  /\ men[i].partner_rank = men[i].proposals_made - 1
            /\ \A j \in DOMAIN women :
                  (HasProposed(i, j) /\ men[i].partner # j) =>
                      /\ ~women[j].is_free
                      /\ index(women[j].pref_list, men[women[j].partner].mid)
                            < index(women[j].pref_list, men[i].mid)

\* on a valid input a man is engaged to his second choice or worse while
\* another man who has already proposed is free
C19_Witness ==
    /\ ValidInput /\ pc = "running"
    /\ \E i \in DOMAIN men : ~men[i].is_free /\ men[i].partner_rank >= 1
    /\ \E i \in DOMAIN men : men[i].is_free /\ men[i].proposals_made >= 1

====
